---- MODULE Spec2Model ----
(***************************************************************************)
(* Stage-graph execution engine of the productivity agent.                 *)
(*                                                                         *)
(* src/graph/nodes.py    : the AgentState dictionary and the stage         *)
(*                         functions (each a dict -> dict transformation). *)
(* src/graph/workflow.py : the completion predicate is_task_complete, the  *)
(*                         StateGraph wiring with its conditional edge     *)
(*                         after MemoryWrite, and run_graph_once.          *)
(*                                                                         *)
(* Modelling conventions                                                   *)
(*  - a Python str is a sequence of one-character strings, so that strip,  *)
(*    split, endswith, lower and "in" are computed character by character; *)
(*  - a Python list is a sequence; a dict is a function whose DOMAIN is    *)
(*    the set of keys present (an absent key is outside the DOMAIN);       *)
(*  - the feedback value (None or a dict) is a record [isNone, items];     *)
(*  - plan steps, action results, the response and identifiers are only   *)
(*    copied, counted and compared as a whole, so they are TLA+ strings.   *)
(***************************************************************************)
EXTENDS Integers, Sequences, FiniteSets, TLC

(***************************************************************************)
(* Bounds of the model.                                                    *)
(***************************************************************************)
\* number of direct calls a unit driver makes on one state
MaxCalls == 2

\* the per-function execution counters saturate at this value
CountCap == 3

(***************************************************************************)
(* Characters and the str methods the stages use.                          *)
(***************************************************************************)
Whitespace == {" ", "\t", "\n"}

EntityStripChars == {",", ".", "!", "?", ";", ":"}

GoalTerminators == {".", "!", "?"}

UpperLetters == <<"A", "B", "C", "D", "E", "F", "G", "H", "I", "J", "K", "L", "M", "N", "O", "P", "Q", "R", "S", "T", "U", "V", "W", "X", "Y", "Z">>

LowerLetters == <<"a", "b", "c", "d", "e", "f", "g", "h", "i", "j", "k", "l", "m", "n", "o", "p", "q", "r", "s", "t", "u", "v", "w", "x", "y", "z">>

MeetingWord == <<"m", "e", "e", "t", "i", "n", "g">>

isupper(c) == \E i \in 1..Len(UpperLetters) : UpperLetters[i] = c

lower_char(c) ==
    IF isupper(c)
    THEN LowerLetters[CHOOSE i \in 1..Len(UpperLetters) : UpperLetters[i] = c]
    ELSE c

lower(s) == [i \in 1..Len(s) |-> lower_char(s[i])]

\* the element of a one-element set; {e(x) : x \in {v}} evaluates v once,
\* which keeps the cost of the string operations linear in their input
TheOne(S) == CHOOSE x \in S : TRUE

\* the positions of s holding a character outside chars
kept(s, chars) == {i \in 1..Len(s) : s[i] \notin chars}

\* the smallest and the largest member of a non-empty set of positions
first_of(P) == CHOOSE i \in P : \A j \in P : i <= j

last_of(P) == CHOOSE i \in P : \A j \in P : j <= i

lstrip(str, chars) ==
    TheOne({IF K = {} THEN <<>> ELSE SubSeq(str, first_of(K), Len(str)) :
                K \in {kept(str, chars)}})

rstrip(str, chars) ==
    TheOne({IF K = {} THEN <<>> ELSE SubSeq(str, 1, last_of(K)) :
                K \in {kept(str, chars)}})

strip(str, chars) ==
    TheOne({rstrip(lstrip(s, chars), chars) : s \in {str}})

\* positions where a maximal run of non-whitespace starts
word_starts(s) ==
    {i \in kept(s, Whitespace) : i = 1 \/ s[i - 1] \in Whitespace}

\* the last position of the run that starts at position i
word_end(s, i) ==
    first_of({j \in i..Len(s) : j = Len(s) \/ s[j + 1] \in Whitespace})

\* the runs of s that start at the positions W, in order
words_at(s, W) ==
    [k \in 1..Cardinality(W) |->
        LET i == CHOOSE x \in W : Cardinality({y \in W : y < x}) = k - 1
        IN SubSeq(s, i, word_end(s, i))]

\* str.split() without arguments: the maximal runs of non-whitespace, in order
split(str) ==
    TheOne({TheOne({words_at(s, W) : W \in {word_starts(s)}}) : s \in {str}})

endswith(s, chars) == s # <<>> /\ s[Len(s)] \in chars

contains(s, sub) ==
    \E i \in 1..(Len(s) - Len(sub) + 1) : SubSeq(s, i, i + Len(sub) - 1) = sub

\* w[:1].isupper()
starts_upper(w) == w # <<>> /\ isupper(w[1])

\* [w for w in tokens if w[:1].isupper()]
capitalized(tokens) == SelectSeq(tokens, starts_upper)

(***************************************************************************)
(* The AgentState dictionary.                                              *)
(***************************************************************************)
AgentStateKeys ==
    {"user_input", "sanitized_input", "entities", "goals", "plan",
     "action_results", "memories_retrieved", "memories_to_write",
     "feedback", "response"}

\* Python None in the feedback slot, and a dict given by its items
None == [isNone |-> TRUE, items |-> {}]

Dict(items) == [isNone |-> FALSE, items |-> items]

\* truth value of a feedback value: None and {} are falsy
truthy(fb) == ~fb.isNone /\ fb.items # {}

\* dict.get(key, default)
get(s, k, d) == IF k \in DOMAIN s THEN s[k] ELSE d

\* s[key] = value on a dict (the key is added when absent)
set_item(s, key, v) ==
    [k \in (DOMAIN s) \cup {key} |-> IF k = key THEN v ELSE s[k]]

\* user_input and sanitized_input default to the empty character sequence,
\* the list fields to the empty list, response to "", feedback to None
ensure_state_defaults(s) ==
    [k \in AgentStateKeys |->
        CASE k = "feedback" -> get(s, "feedback", None)
          [] k = "response" -> get(s, "response", "")
          [] OTHER          -> get(s, k, <<>>)]

(***************************************************************************)
(* Stage functions.                                                        *)
(***************************************************************************)
\* [w.strip(",.!?;:") for w in text.split()]
entity_tokens(text) ==
    TheOne({[i \in 1..Len(toks) |-> strip(toks[i], EntityStripChars)] :
                toks \in {split(text)}})

\* variant: the "only if entities is empty" guard is missing
perception_node_unguarded(s0) ==
    TheOne({IF text # <<>>
            THEN set_item(set_item(s, "sanitized_input", text), "entities",
                          capitalized(entity_tokens(text)))
            ELSE set_item(s, "sanitized_input", text) :
                <<s, text>> \in
                    {<<d, strip(d["user_input"], Whitespace)>> :
                        d \in {ensure_state_defaults(s0)}}})

perception_node(s0) ==
    TheOne({IF text # <<>> /\ s["entities"] = <<>>
            THEN set_item(set_item(s, "sanitized_input", text), "entities",
                          capitalized(entity_tokens(text)))
            ELSE set_item(s, "sanitized_input", text) :
                <<s, text>> \in
                    {<<d, strip(d["user_input"], Whitespace)>> :
                        d \in {ensure_state_defaults(s0)}}})

\* variant: the new goal replaces the list instead of being appended
goal_setting_node_replaces(s0) ==
    LET s    == ensure_state_defaults(s0)
        text == s["sanitized_input"]
    IN IF text # <<>> /\ (endswith(text, GoalTerminators) \/ Len(split(text)) > 3)
       THEN set_item(s, "goals", <<text>>)
       ELSE s

\* variant: three words are already enough
goal_setting_node_three_words(s0) ==
    LET s    == ensure_state_defaults(s0)
        text == s["sanitized_input"]
    IN IF text # <<>> /\ (endswith(text, GoalTerminators) \/ Len(split(text)) > 2)
       THEN set_item(s, "goals", Append(s["goals"], text))
       ELSE s

goal_setting_node(s0) ==
    LET s    == ensure_state_defaults(s0)
        text == s["sanitized_input"]
    IN IF text # <<>> /\ (endswith(text, GoalTerminators) \/ Len(split(text)) > 3)
       THEN set_item(s, "goals", Append(s["goals"], text))
       ELSE s

memory_recall_node(s0) ==
    LET s == ensure_state_defaults(s0)
    IN IF s["memories_retrieved"] = <<>>
       THEN set_item(s, "memories_retrieved", <<>>)
       ELSE s

StubResponse == "Stub response: planned action"

reasoning_node(s0) ==
    set_item(ensure_state_defaults(s0), "response", StubResponse)

\* variant: the keyword test is case-sensitive
planning_node_case_sensitive(s0) ==
    LET s    == ensure_state_defaults(s0)
        plan == IF contains(s["sanitized_input"], MeetingWord)
                THEN <<"calendar.create_event">>
                ELSE <<>>
    IN set_item(s, "plan", plan)

\* variant: the step is appended to the plan already in the state
planning_node_appends(s0) ==
    LET s    == ensure_state_defaults(s0)
        plan == IF contains(lower(s["sanitized_input"]), MeetingWord)
                THEN Append(s["plan"], "calendar.create_event")
                ELSE s["plan"]
    IN set_item(s, "plan", plan)

planning_node(s0) ==
    LET s    == ensure_state_defaults(s0)
        plan == IF contains(lower(s["sanitized_input"]), MeetingWord)
                THEN <<"calendar.create_event">>
                ELSE <<>>
    IN set_item(s, "plan", plan)

\* variant: the results are appended to the ones already in the state
action_node_extends(s0) ==
    LET s == ensure_state_defaults(s0)
    IN IF s["plan"] # <<>>
       THEN set_item(s, "action_results",
                     s["action_results"] \o [i \in 1..Len(s["plan"]) |-> "ok"])
       ELSE set_item(s, "action_results", s["action_results"] \o <<"ok">>)

\* variant: an empty plan leaves the results as they were
action_node_skips_empty(s0) ==
    LET s == ensure_state_defaults(s0)
    IN IF s["plan"] = <<>> THEN s
       ELSE set_item(s, "action_results", [i \in 1..Len(s["plan"]) |-> "ok"])

action_node(s0) ==
    LET s == ensure_state_defaults(s0)
    IN IF s["plan"] # <<>>
       THEN set_item(s, "action_results", [i \in 1..Len(s["plan"]) |-> "ok"])
       ELSE set_item(s, "action_results", <<"ok">>)

self_reflection_node(s0) ==
    set_item(ensure_state_defaults(s0), "feedback", Dict({<<"rating", 5>>}))

feedback_node(s0) ==
    LET s == ensure_state_defaults(s0)
    IN IF ~truthy(s["feedback"])
       THEN set_item(s, "feedback", Dict({<<"rating", 5>>}))
       ELSE s

\* variant: the list is never cleared
memory_write_node_keeps(s0) == ensure_state_defaults(s0)

memory_write_node(s0) ==
    LET s == ensure_state_defaults(s0)
    IN IF s["memories_to_write"] # <<>>
       THEN set_item(s, "memories_to_write", <<>>)
       ELSE s

(***************************************************************************)
(* Completion predicate and router (workflow.py).                          *)
(***************************************************************************)
\* variant: ">" in place of ">=" in the length test
is_task_complete_strict(s) ==
    LET plan    == get(s, "plan", <<>>)
        results == get(s, "action_results", <<>>)
    IN IF plan = <<>> THEN TRUE
       ELSE IF /\ Len(results) > Len(plan)
               /\ \A i \in 1..Len(plan) : results[i] = "ok"
            THEN TRUE
            ELSE FALSE

\* variant: the early return for an empty plan is missing
is_task_complete_no_shortcut(s) ==
    LET plan    == get(s, "plan", <<>>)
        results == get(s, "action_results", <<>>)
    IN IF /\ plan # <<>>
          /\ Len(results) >= Len(plan)
          /\ \A i \in 1..Len(plan) : results[i] = "ok"
       THEN TRUE
       ELSE FALSE

\* variant: every result is tested, not only the first len(plan)
is_task_complete_all_results(s) ==
    LET plan    == get(s, "plan", <<>>)
        results == get(s, "action_results", <<>>)
    IN IF plan = <<>> THEN TRUE
       ELSE IF /\ Len(results) >= Len(plan)
               /\ \A i \in 1..Len(results) : results[i] = "ok"
            THEN TRUE
            ELSE FALSE

is_task_complete(s) ==
    LET plan    == get(s, "plan", <<>>)
        results == get(s, "action_results", <<>>)
    IN IF plan = <<>> THEN TRUE
       ELSE IF /\ Len(results) >= Len(plan)
               /\ \A i \in 1..Len(plan) : results[i] = "ok"
            THEN TRUE
            ELSE FALSE

\* variant: the two branches of the router are swapped
should_continue_inverted(s) == IF is_task_complete(s) THEN "continue" ELSE "end"

should_continue(s) == IF ~is_task_complete(s) THEN "continue" ELSE "end"

(***************************************************************************)
(* Tool registry and adapter (src/mcp).                                    *)
(***************************************************************************)
\* ToolRegistry._tools of the module-level registry: register is never
\* called, so no tool name is registered
RegisteredTools == {}

\* ToolRegistry.get_tool returns a function exactly for a registered name
get_tool_found(name) == name \in RegisteredTools

\* MCPAdapter.execute: raises ValueError('tool not found') for an
\* unregistered name, otherwise returns the tool's result
mcp_execute(name) ==
    IF ~get_tool_found(name) THEN "ValueError: tool not found" ELSE "result"

(***************************************************************************)
(* Simulated Tool Provider that reports failure for every step of a        *)
(* non-empty plan (the stage a test puts in place of ToolExecution).       *)
(***************************************************************************)
failing_action_node(s0) ==
    LET s == ensure_state_defaults(s0)
    IN IF s["plan"] # <<>>
       THEN set_item(s, "action_results", [i \in 1..Len(s["plan"]) |-> "error"])
       ELSE set_item(s, "action_results", <<"ok">>)

(***************************************************************************)
(* The StateGraph: nodes, entry point, edges and the conditional edge.     *)
(***************************************************************************)
END == "END"

Nodes ==
    {"Perception", "GoalSetting", "MemoryRecall", "Reasoning", "Planning",
     "ToolExecution", "FeedbackProcessing", "MemoryWrite"}

EntryPoint == "Perception"

\* variant: Planning is followed directly by FeedbackProcessing
Edges_skip_tools ==
    [Perception         |-> "GoalSetting",
     GoalSetting        |-> "MemoryRecall",
     MemoryRecall       |-> "Reasoning",
     Reasoning          |-> "Planning",
     Planning           |-> "FeedbackProcessing",
     ToolExecution      |-> "FeedbackProcessing",
     FeedbackProcessing |-> "MemoryWrite"]

Edges ==
    [Perception         |-> "GoalSetting",
     GoalSetting        |-> "MemoryRecall",
     MemoryRecall       |-> "Reasoning",
     Reasoning          |-> "Planning",
     Planning           |-> "ToolExecution",
     ToolExecution      |-> "FeedbackProcessing",
     FeedbackProcessing |-> "MemoryWrite"]

\* variant: the loop-back re-enters at the entry point
ConditionalEdges_restart == [continue |-> "Perception", end |-> END]

ConditionalEdges == [continue |-> "Reasoning", end |-> END]

\* the node the compiled graph runs after `node` has returned state s
graph_next(node, s) ==
    IF node = "MemoryWrite" THEN ConditionalEdges[should_continue(s)]
    ELSE Edges[node]

\* the function each node name is bound to by add_node
node_fn(node, tp, s) ==
    CASE node = "Perception"         -> perception_node(s)
      [] node = "GoalSetting"        -> goal_setting_node(s)
      [] node = "MemoryRecall"       -> memory_recall_node(s)
      [] node = "Reasoning"          -> reasoning_node(s)
      [] node = "Planning"           -> planning_node(s)
      [] node = "ToolExecution"      -> IF tp = "stub" THEN action_node(s)
                                        ELSE failing_action_node(s)
      [] node = "FeedbackProcessing" -> feedback_node(s)
      [] node = "MemoryWrite"        -> memory_write_node(s)

(***************************************************************************)
(* run_graph_once: the straight-line list of stage functions.              *)
(***************************************************************************)
\* variant: the list leaves Planning out
StageList_no_planning ==
    <<"Perception", "GoalSetting", "MemoryRecall", "Reasoning",
      "ToolExecution", "FeedbackProcessing", "MemoryWrite">>

StageList ==
    <<"Perception", "GoalSetting", "MemoryRecall", "Reasoning", "Planning",
      "ToolExecution", "FeedbackProcessing", "MemoryWrite">>

\* the stage the for loop of run_graph_once runs after `node`, END on return
once_next(node) ==
    LET i == CHOOSE j \in 1..Len(StageList) : StageList[j] = node
    IN IF i < Len(StageList) THEN StageList[i + 1] ELSE END

\* Optional[str] arguments: None, the empty string, or a given identifier
NoneId == "<None>"

\* values uuid.uuid4() can return
UUIDs == {"uuid-1", "uuid-2"}

\* `x or str(uuid.uuid4())` with fresh the uuid drawn for this call
or_uuid(x, fresh) == IF x = NoneId \/ x = "" THEN fresh ELSE x

\* lines 110-117: base state, defaults, then the two identifiers
run_graph_once_init(user_id, session_id, user_input, fresh1, fresh2) ==
    LET base == [k \in {"user_input"} |-> user_input]
        s    == ensure_state_defaults(base)
        s1   == set_item(s, "user_id", or_uuid(user_id, fresh1))
    IN set_item(s1, "session_id", or_uuid(session_id, fresh2))

(***************************************************************************)
(* Inputs: user utterances, and the partial state dictionaries a caller    *)
(* of the graph or of a single stage can hand in.                          *)
(***************************************************************************)
InMeeting == <<"S", "c", "h", "e", "d", "u", "l", "e", " ", "a", " ", "m", "e", "e", "t", "i", "n", "g", " ", "w", "i", "t", "h", " ", "S", "a", "m", " ", "t", "o", "m", "o", "r", "r", "o", "w", ".">>

InEmpty == <<>>

InBlank == <<" ", " ">>

InHi == <<" ", "h", "i", " ">>

InUpperMeeting == <<"M", "E", "E", "T", "I", "N", "G", " ", "n", "o", "w">>

InFourWords == <<"c", "a", "l", "l", " ", "B", "o", "b", " ", "a", "n", "d", " ", "A", "l">>

InQuestion == <<"W", "h", "y", "?">>

InPunct == <<".", ".", ".", " ", "S", "a", "m", ",", " ", "o", "k">>

UserInputs ==
    {InMeeting, InEmpty, InBlank, InHi, InUpperMeeting, InFourWords,
     InQuestion, InPunct}

UserIds == {NoneId, "", "alice"}

SessionIds == {NoneId, "", "s-1"}

\* an optional dictionary entry is a set with no element (key absent) or one
PlanOpts ==
    {{}, {<<>>}, {<<"calendar.create_event">>},
     {<<"calendar.create_event", "mail.send">>}}

ResultOpts ==
    {{}, {<<>>}, {<<"ok">>}, {<<"error">>}, {<<"OK">>}, {<<"ok", "ok">>},
     {<<"ok", "error">>}, {<<"ok", "ok", "error">>}}

EntityOpts == {{}, {<<<<"S", "a", "m">>>>}}

GoalOpts == {{}, {<<<<"g", "o">>>>}}

FeedbackOpts ==
    {{}, {None}, {Dict({})}, {Dict({<<"rating", 3>>})}}

MemoryOpts == {{}, {<<"note">>}}

\* the dictionary with exactly the entries whose option is present
PartialState(opts) ==
    [k \in {key \in DOMAIN opts : opts[key] # {}} |-> TheOne(opts[k])]

\* fabricated states exercising the plan / action_results correlation
PredicateStates ==
    {PartialState([user_input |-> {ui}, plan |-> pl, action_results |-> ar]) :
        ui \in {InMeeting, InHi}, pl \in PlanOpts, ar \in ResultOpts}

\* fabricated states exercising the fields the other stages own
StageStates ==
    {PartialState([user_input |-> ui, entities |-> en, goals |-> go,
                   feedback |-> fb, memories_to_write |-> mw]) :
        ui \in {{x} : x \in UserInputs} \cup {{}}, en \in EntityOpts,
        go \in GoalOpts, fb \in FeedbackOpts, mw \in MemoryOpts}

InputStates == PredicateStates \cup StageStates

(***************************************************************************)
(* State of one run.                                                       *)
(*   driver   who drives the stages: "graph" (the compiled StateGraph),    *)
(*            "once" (run_graph_once) or "unit" (stages and the predicate  *)
(*            called directly on a state, in any order)                    *)
(*   tools    the Tool Provider behind ToolExecution: "stub" is action_node*)
(*            as written, "failing" the simulated failing provider         *)
(*   init     what the run was started with: the input dictionary, or the  *)
(*            arguments of run_graph_once                                  *)
(*   pc       the node to run next, "start" before run_graph_once has      *)
(*            built its state, "unit" for the unit driver, END when done   *)
(*   state    the AgentState dictionary                                    *)
(*   executed how often each function has run (saturating at CountCap)     *)
(*   last     the function that ran last                                   *)
(*   verdict  the last value returned by is_task_complete                  *)
(*   calls    number of direct calls made by the unit driver               *)
(* State of two runs whose stages interleave (driver = "conc"):            *)
(*   heap     the list and dict objects: the caller's, and each run's own  *)
(*   runs     per run: the node to run next, the scalar entries of its     *)
(*            state, the object each other entry refers to, and the        *)
(*            dictionary it was started with                               *)
(***************************************************************************)
VARIABLES driver, tools, init, pc, state, executed, last, verdict, calls,
          heap, runs

vars ==
    <<driver, tools, init, pc, state, executed, last, verdict, calls,
      heap, runs>>

Functions == Nodes \cup {"SelfReflection", "is_task_complete"}

bump(f) ==
    [executed EXCEPT ![f] = IF @ < CountCap THEN @ + 1 ELSE @]

bool_str(b) == IF b THEN "True" ELSE "False"

InitWith(tps) ==
    /\ tools \in tps
    /\ driver \in {"graph", "once", "unit"}
    /\ \/ /\ driver = "graph"
          /\ init \in InputStates
          /\ state = init
          /\ pc = EntryPoint
       \/ /\ driver = "unit"
          /\ init \in InputStates
          /\ state = init
          /\ pc = "unit"
       \/ /\ driver = "once"
          /\ init \in [user_id : UserIds, session_id : SessionIds,
                       user_input : UserInputs]
          /\ state = <<>>
          /\ pc = "start"
    /\ executed = [f \in Functions |-> 0]
    /\ last = "none"
    /\ verdict = "none"
    /\ calls = 0
    /\ heap = <<>>
    /\ runs = <<>>

\* the program as written
Init == InitWith({"stub"})

\* the program with ToolExecution possibly bound to the failing provider
SimInit == InitWith({"stub", "failing"})

\* run_graph_once, lines 110-117
Start ==
    /\ driver = "once"
    /\ pc = "start"
    /\ \E fresh1 \in UUIDs, fresh2 \in UUIDs :
          state' = run_graph_once_init(init.user_id, init.session_id,
                                       init.user_input, fresh1, fresh2)
    /\ pc' = StageList[1]
    /\ UNCHANGED <<driver, tools, init, executed, last, verdict, calls,
                   heap, runs>>

\* one execution of the stage bound to `node`, by whichever driver
RunNode(node) ==
    /\ \/ driver \in {"graph", "once"} /\ pc = node
       \/ driver = "unit" /\ pc = "unit" /\ calls < MaxCalls
    /\ state' = node_fn(node, tools, state)
    /\ pc' = CASE driver = "graph" -> graph_next(node, state')
               [] driver = "once"  -> once_next(node)
               [] driver = "unit"  -> pc
    /\ verdict' = IF driver = "graph" /\ node = "MemoryWrite"
                  THEN bool_str(is_task_complete(state'))
                  ELSE verdict
    /\ executed' = bump(node)
    /\ last' = node
    /\ calls' = IF driver = "unit" THEN calls + 1 ELSE calls
    /\ UNCHANGED <<driver, tools, init, heap, runs>>

Perception == RunNode("Perception")

GoalSetting == RunNode("GoalSetting")

MemoryRecall == RunNode("MemoryRecall")

Reasoning == RunNode("Reasoning")

Planning == RunNode("Planning")

ToolExecution == RunNode("ToolExecution")

FeedbackProcessing == RunNode("FeedbackProcessing")

MemoryWrite == RunNode("MemoryWrite")

\* self_reflection_node is defined but wired into no graph: direct calls only
SelfReflection ==
    /\ driver = "unit" /\ pc = "unit" /\ calls < MaxCalls
    /\ state' = self_reflection_node(state)
    /\ executed' = bump("SelfReflection")
    /\ last' = "SelfReflection"
    /\ calls' = calls + 1
    /\ UNCHANGED <<driver, tools, init, pc, verdict, heap, runs>>

\* is_task_complete called in isolation on the current state
CheckComplete ==
    /\ driver = "unit" /\ pc = "unit" /\ calls < MaxCalls
    /\ verdict' = bool_str(is_task_complete(state))
    /\ executed' = bump("is_task_complete")
    /\ last' = "is_task_complete"
    /\ calls' = calls + 1
    /\ UNCHANGED <<driver, tools, init, pc, state, heap, runs>>

Next ==
    \/ Start
    \/ Perception
    \/ GoalSetting
    \/ MemoryRecall
    \/ Reasoning
    \/ Planning
    \/ ToolExecution
    \/ FeedbackProcessing
    \/ MemoryWrite
    \/ SelfReflection
    \/ CheckComplete

Spec == Init /\ [][Next]_vars

\* stages run to completion one after another: a run that can step does step
FairSpec == Spec /\ WF_vars(Next)

SimSpec == SimInit /\ [][Next]_vars

FairSimSpec == SimSpec /\ WF_vars(Next)

(***************************************************************************)
(* Views of the state used by the properties.                              *)
(***************************************************************************)
Plan == get(state, "plan", <<>>)

Results == get(state, "action_results", <<>>)

Goals == get(state, "goals", <<>>)

Entities == get(state, "entities", <<>>)

IsPrefix(a, b) == Len(a) <= Len(b) /\ SubSeq(b, 1, Len(a)) = a

TypeOK ==
    /\ driver \in {"graph", "once", "unit", "conc"}
    /\ pc \in Nodes \cup {"start", "unit", "conc", END}
    /\ DOMAIN state \subseteq AgentStateKeys \cup {"user_id", "session_id"}
    /\ last \in Functions \cup {"none"}
    /\ verdict \in {"none", "True", "False"}
    /\ calls \in 0..MaxCalls

(***************************************************************************)
(* Properties.                                                             *)
(***************************************************************************)

\* C1: every run of the stage graph reaches END: the Reasoning..MemoryWrite
\* segment does not repeat forever, whatever the input dictionary.
C1_GraphTerminates == (driver = "graph") ~> (pc = END)

\* a graph run on a non-empty plan has gone through MemoryWrite and ended
C1_Witness ==
    /\ driver = "graph"
    /\ pc = END
    /\ Plan # <<>>
    /\ executed["MemoryWrite"] >= 1

\* the final state is marked incomplete: the code defines no such field, so
\* any key beyond the ones the code writes counts as the marker
IncompleteMarker ==
    DOMAIN state \ (AgentStateKeys \cup {"user_id", "session_id"}) # {}

\* C2 (as claimed): once ToolExecution has reported a non-success result for
\* a non-empty plan, the run still ends, and it ends with the final state
\* marked incomplete.
C2_Original ==
    (/\ driver \in {"graph", "once"}
     /\ tools = "failing"
     /\ last = "ToolExecution"
     /\ Plan # <<>>)
        ~> (pc = END /\ IncompleteMarker)

\* the stage that may follow `prev` in a run
Follows(prev, node) ==
    \/ prev = "none" /\ node = "Perception"
    \/ prev \in DOMAIN Edges /\ node = Edges[prev]
    \/ prev = "MemoryWrite" /\ node = "Reasoning"

C3_Counts ==
    driver \in {"graph", "once"} =>
        /\ \A f \in {"Perception", "GoalSetting", "MemoryRecall"} :
              /\ executed[f] <= 1
              /\ pc \in {"Reasoning", "Planning", "ToolExecution",
                         "FeedbackProcessing", "MemoryWrite", END}
                    => executed[f] = 1
        /\ pc = END => \A f \in Nodes : executed[f] >= 1

C3_Step ==
    (driver \in {"graph", "once"} /\ pc # "start") => Follows(last, last')

\* C3: the stages run in the fixed order Perception, GoalSetting,
\* MemoryRecall, Reasoning, Planning, ToolExecution, FeedbackProcessing,
\* MemoryWrite; the first three run exactly once per run, and a loop-back
\* re-enters at Reasoning only.
C3_FixedOrder == [](C3_Counts) /\ [][C3_Step]_vars

\* the loop-back was taken twice and the first three stages ran once
C3_Witness ==
    /\ driver = "graph"
    /\ executed["Reasoning"] >= 3
    /\ executed["Perception"] = 1
    /\ executed["GoalSetting"] = 1
    /\ executed["MemoryRecall"] = 1

C4_Final ==
    (driver = "graph" /\ pc = END) =>
        /\ last = "MemoryWrite"
        /\ is_task_complete(state)
        /\ ~ENABLED Next

C4_Step ==
    driver = "graph" =>
        /\ pc = "MemoryWrite" =>
              pc' = IF is_task_complete(state') THEN END ELSE "Reasoning"
        /\ pc # "MemoryWrite" => pc' = Edges[pc]

\* C4: the loop decision is taken after MemoryWrite and nowhere else, on the
\* state MemoryWrite returned: not complete -> Reasoning runs next; complete
\* -> the run ends there and that state is final.
C4_LoopDecision == [](C4_Final) /\ [][C4_Step]_vars

\* the decision after MemoryWrite sent the run back to Reasoning
C4_Witness ==
    /\ driver = "graph"
    /\ last = "MemoryWrite"
    /\ verdict = "False"
    /\ pc = "Reasoning"

\* is_task_complete has just been evaluated on the current state
JustEvaluated ==
    \/ last = "is_task_complete"
    \/ driver = "graph" /\ last = "MemoryWrite"

\* C5: is_task_complete is true whenever plan is empty (or absent), whatever
\* action_results holds.
C5_EmptyPlanComplete == (JustEvaluated /\ Plan = <<>>) => verdict = "True"

\* evaluated on an empty plan next to a failed result
C5_Witness ==
    /\ last = "is_task_complete"
    /\ Plan = <<>>
    /\ \E i \in 1..Len(Results) : Results[i] # "ok"
    /\ verdict = "True"

C7_Original == (last = "ToolExecution") => Len(Results) = Len(Plan)

\* C7 (amended): after ToolExecution, len(action_results) = len(plan) when
\* plan is non-empty, and len(action_results) = 1 when plan is empty.
C7_Amended ==
    (last = "ToolExecution") =>
        Len(Results) = (IF Plan = <<>> THEN 1 ELSE Len(Plan))

\* ToolExecution ran on a two-step plan that came with three stale results
C7_Witness ==
    /\ last = "ToolExecution"
    /\ Len(Plan) = 2
    /\ "action_results" \in DOMAIN init
    /\ Len(init["action_results"]) = 3

\* C8 (as claimed): the identifiers assigned when run_graph_once builds its
\* state (the caller's value when given, a generated one otherwise) are
\* carried by the state after every stage and by the final state.
C8_Original ==
    (driver = "once" /\ pc # "start") =>
        /\ {"user_id", "session_id"} \subseteq DOMAIN state
        /\ state["user_id"] \in
              (IF init.user_id \in {NoneId, ""} THEN UUIDs ELSE {init.user_id})
        /\ state["session_id"] \in
              (IF init.session_id \in {NoneId, ""} THEN UUIDs
               ELSE {init.session_id})

\* C9: goals is append-only: over every step of a run, the goals before the
\* step are an ordered prefix of the goals after it.
C9_GoalsAppendOnly == [][IsPrefix(Goals, Goals')]_vars

\* a goal handed in by the caller is still first after a whole run that
\* appended another one
C9_Witness ==
    /\ driver = "graph"
    /\ pc = END
    /\ "goals" \in DOMAIN init
    /\ Len(init["goals"]) = 1
    /\ Len(Goals) = 2

\* C10: once entities is non-empty no step changes it; in particular
\* Perception applied to a state with non-empty entities leaves it as it is.
C10_EntitiesOnce == [][Entities # <<>> => Entities' = Entities]_vars

\* Perception applied twice, the first application having produced entities
C10_Witness ==
    /\ driver = "unit"
    /\ "entities" \notin DOMAIN init
    /\ executed["Perception"] = 2
    /\ Entities # <<>>

Feedback == get(state, "feedback", None)

\* C11 (as claimed): the Reflection / FeedbackProcessing stage (feedback_node
\* and self_reflection_node) leaves feedback that is present on entry
\* identical on exit, and sets the default record only when it is absent.
C11_Original ==
    [][last' \in {"FeedbackProcessing", "SelfReflection"} =>
          /\ ~Feedback.isNone => Feedback' = Feedback
          /\ Feedback' # Feedback => Feedback.isNone]_vars

MemoriesToWrite == get(state, "memories_to_write", <<>>)

\* C12 (as claimed): MemoryWrite leaves memories_to_write empty, and when it
\* is already empty on entry the state returned equals the state given, in
\* every field and key.
C12_Original ==
    [][last' = "MemoryWrite" =>
          /\ MemoriesToWrite' = <<>>
          /\ MemoriesToWrite = <<>> => state' = state]_vars

\* C12 (amended): MemoryWrite leaves memories_to_write empty, and every other
\* field of the state returned is the one of the normalised state given
\* (ensure_state_defaults of it): with memories_to_write empty on entry the
\* state returned is exactly that normalised state.
C12_Amended ==
    [][last' = "MemoryWrite" =>
          /\ MemoriesToWrite' = <<>>
          /\ state' = set_item(ensure_state_defaults(state),
                               "memories_to_write", <<>>)
          /\ MemoriesToWrite = <<>> => state' = ensure_state_defaults(state)]_vars

\* MemoryWrite called directly on a partial state without memories_to_write
C12_Witness ==
    /\ driver = "unit"
    /\ last = "MemoryWrite"
    /\ calls = 1
    /\ "memories_to_write" \notin DOMAIN init
    /\ DOMAIN init # AgentStateKeys
    /\ state = ensure_state_defaults(init)

\* C13 (as claimed): after ToolExecution, the entry of action_results for a
\* plan step whose tool is not registered is a failure descriptor, not the
\* success sentinel, and the run goes on to the decision, which sees it.
C13_Original ==
    /\ last = "ToolExecution" =>
          \A i \in 1..Len(Plan) :
              ~get_tool_found(Plan[i]) =>
                  /\ i <= Len(Results)
                  /\ Results[i] # "ok"
    /\ (driver = "graph" /\ last = "MemoryWrite"
            /\ \E i \in 1..Len(Plan) : ~get_tool_found(Plan[i]))
          => verdict = "False"

\* the utterance the run was started with
InitInput == get(init, "user_input", <<>>)

\* the trimmed utterance contains "meeting", in any letter case
MentionsMeeting ==
    contains(lower(strip(InitInput, Whitespace)), MeetingWord)

\* C14: on an utterance that mentions a meeting, Planning yields the one-step
\* plan [calendar.create_event], ToolExecution one "ok", the first decision
\* finds the task complete, and no stage runs a second time.
C14_MeetingScenario ==
    (driver \in {"graph", "once"} /\ MentionsMeeting) =>
        /\ pc \in {"ToolExecution", "FeedbackProcessing", "MemoryWrite", END}
              => Plan = <<"calendar.create_event">>
        /\ pc \in {"FeedbackProcessing", "MemoryWrite", END}
              => Results = <<"ok">>
        /\ (driver = "graph" /\ last = "MemoryWrite")
              => (verdict = "True" /\ pc = END)
        /\ \A f \in Nodes : executed[f] <= 1
        /\ pc = END => \A f \in Nodes : executed[f] = 1

\* a graph run on "MEETING now" has ended after one pass
C14_Witness ==
    /\ driver = "graph"
    /\ InitInput = InUpperMeeting
    /\ pc = END
    /\ executed["Reasoning"] = 1

SanitizedInput == get(state, "sanitized_input", <<>>)

\* the text ends with '.', '!' or '?', or has more than three words
Substantial(text) ==
    \/ text # <<>> /\ text[Len(text)] \in {".", "!", "?"}
    \/ Cardinality(word_starts(text)) > 3

\* C15: GoalSetting appends sanitized_input to goals exactly when the text
\* ends with '.', '!' or '?' or has more than three words; otherwise goals is
\* unchanged; never more than one goal is appended.
C15_GoalGate ==
    [][last' = "GoalSetting" =>
          Goals' = (IF Substantial(SanitizedInput)
                    THEN Append(Goals, SanitizedInput)
                    ELSE Goals)]_vars

\* GoalSetting left goals alone on the three-word text "... Sam, ok"
C15_Witness ==
    /\ last = "GoalSetting"
    /\ SanitizedInput = InPunct
    /\ Len(split(SanitizedInput)) = 3
    /\ Goals = get(init, "goals", <<>>)


\* C16: after ToolExecution action_results is rebuilt from plan alone: one
\* "ok" per plan step in plan order, a single "ok" when plan is empty; so it
\* is never empty and keeps nothing of the results held before the call.
C16_ResultsRebuilt ==
    (last = "ToolExecution") =>
        /\ Results # <<>>
        /\ Results = (IF Plan = <<>> THEN <<"ok">>
                      ELSE [i \in 1..Len(Plan) |-> "ok"])

\* ToolExecution ran on an empty plan that came with two stale results, one
\* of them a failure, and left the single trivial success
C16_Witness ==
    /\ last = "ToolExecution"
    /\ Plan = <<>>
    /\ "action_results" \in DOMAIN init
    /\ init["action_results"] = <<"ok", "error">>
    /\ Results = <<"ok">>


\* the graph has just run MemoryWrite and evaluated the completion predicate
AtDecisionPoint == driver = "graph" /\ last = "MemoryWrite"

\* C17: whenever the graph evaluates the completion predicate, Planning and
\* ToolExecution have each run once in every pass that reached the decision
\* point, the plan is the one Planning writes for this input, and
\* action_results is what ToolExecution produces from that plan: results
\* left from an earlier pass, or handed in, are never what the predicate reads.
C17_SamePassResults ==
    AtDecisionPoint =>
        /\ executed["Planning"] = executed["MemoryWrite"]
        /\ executed["ToolExecution"] = executed["MemoryWrite"]
        /\ Plan = planning_node(state)["plan"]
        /\ Results = node_fn("ToolExecution", tools, state)["action_results"]
        /\ Len(Results) = Len(Plan) \/ Plan = <<>>

\* the decision point of a second pass, in a run that was handed a two-step
\* plan with three results and whose Planning replaced the plan
C17_Witness ==
    /\ AtDecisionPoint
    /\ executed["MemoryWrite"] = 2
    /\ "plan" \in DOMAIN init /\ Len(init["plan"]) = 2
    /\ "action_results" \in DOMAIN init /\ Len(init["action_results"]) = 3
    /\ Len(Plan) = 1
    /\ Len(Results) = 1


\* the state with its plan entry set to pl
WithPlan(s, pl) == set_item(ensure_state_defaults(s), "plan", pl)

\* C18: the plan Planning writes is the same whatever plan the state held
\* before the call (none, empty, one step or two steps); it has at most one
\* step; and a Planning that follows an earlier Planning on the same
\* sanitized_input writes the plan that is already there.
C18_PlanReplaced ==
    [][last' = "Planning" =>
          /\ \A pl \in UNION PlanOpts :
                Plan' = planning_node(WithPlan(state, pl))["plan"]
          /\ Len(Plan') <= 1
          /\ (\/ last = "Planning"
              \/ driver = "graph" /\ executed["Planning"] >= 1) => Plan' = Plan
      ]_vars

\* Planning has run a second time in a graph run that was handed a two-step
\* plan, and the plan is the single step of the first pass
C18_Witness ==
    /\ driver = "graph"
    /\ last = "Planning"
    /\ executed["Planning"] = 2
    /\ "plan" \in DOMAIN init /\ Len(init["plan"]) = 2
    /\ Plan = <<"calendar.create_event">>


\* steps after which a graph run that has not reached END is given up
GraphFuel == Cardinality(Nodes) * CountCap

\* graph.invoke: the state reached by driving the compiled graph from `node`
\* on state s until END (done), or until the fuel is spent (not done)
RECURSIVE graph_run(_, _, _)
graph_run(node, s, fuel) ==
    IF node = END THEN [done |-> TRUE, state |-> s]
    ELSE IF fuel = 0 THEN [done |-> FALSE, state |-> s]
    ELSE TheOne({graph_run(graph_next(node, x), x, fuel - 1) :
                    x \in {node_fn(node, tools, s)}})

\* C19: the state run_graph_once returns is the state the stage graph ends
\* in when it is driven from the entry point to END on the initial state
\* run_graph_once builds, whichever identifiers were generated.
C19_OnceMirrorsGraph ==
    (driver = "once" /\ pc = END) =>
        \A fresh1 \in UUIDs, fresh2 \in UUIDs :
            graph_run(EntryPoint,
                      run_graph_once_init(init.user_id, init.session_id,
                                          init.user_input, fresh1, fresh2),
                      GraphFuel)
              = [done |-> TRUE, state |-> state]

\* run_graph_once has returned for an utterance that yields a one-step plan
\* and a goal, with both identifiers generated
C19_Witness ==
    /\ driver = "once"
    /\ pc = END
    /\ init.user_id = NoneId /\ init.session_id = NoneId
    /\ Len(Plan) = 1
    /\ Len(Goals) = 1
    /\ executed["MemoryWrite"] = 1


(***************************************************************************)
(* Two runs with interleaved stages.  Lists and the feedback dict are      *)
(* objects on a heap; a state dictionary refers to them.  Both runs are    *)
(* started on dictionaries that refer to the same caller-owned objects.    *)
(***************************************************************************)
ListFields ==
    {"entities", "goals", "plan", "action_results", "memories_retrieved",
     "memories_to_write"}

HeapFields == ListFields \cup {"feedback"}

ScalarFields == AgentStateKeys \ HeapFields

RunIds == {"run1", "run2"}

\* an object is named by its owner and the field it was created for
Addrs == ({"caller"} \cup RunIds) \X HeapFields

\* variant: the list found in the state is used as it is
list_copy_alias(hp, refs, r, f) ==
    IF f \in DOMAIN refs THEN [addr |-> refs[f], cell |-> hp[refs[f]]]
    ELSE [addr |-> <<r, f>>, cell |-> <<>>]

\* list(state.get(f, [])): a new list object of run r with the same items
list_copy(hp, refs, r, f) ==
    [addr |-> <<r, f>>,
     cell |-> IF f \in DOMAIN refs THEN hp[refs[f]] ELSE <<>>]

\* ensure_state_defaults on objects: every list field is copied, feedback
\* is passed on as the same object (None when the key is absent)
heap_defaults(hp, refs, r) ==
    LET lc    == [f \in ListFields |-> list_copy(hp, refs, r, f)]
        fbNew == "feedback" \notin DOMAIN refs
        refs1 == [f \in HeapFields |->
                     IF f \in ListFields THEN lc[f].addr
                     ELSE IF fbNew THEN <<r, "feedback">>
                     ELSE refs["feedback"]]
        hp1   == [a \in DOMAIN hp |->
                     IF a[2] \in ListFields /\ a = lc[a[2]].addr
                     THEN lc[a[2]].cell
                     ELSE IF fbNew /\ a = <<r, "feedback">> THEN None
                     ELSE hp[a]]
    IN [heap |-> hp1, refs |-> refs1]

\* the dictionary as a stage reads it: each reference replaced by its object
deref(hp, scal, refs) ==
    [k \in (DOMAIN scal) \cup (DOMAIN refs) |->
        IF k \in DOMAIN refs THEN hp[refs[k]] ELSE scal[k]]

\* goal_setting_node appends to the list it holds; every other write of a
\* stage binds the key to a new object
in_place(node, f) == node = "GoalSetting" /\ f = "goals"

ConcInputs == {InMeeting, InFourWords, InHi}

ConcInit ==
    /\ driver = "conc"
    /\ tools = "stub"
    /\ init = <<>>
    /\ pc = "conc"
    /\ state = <<>>
    /\ executed = [f \in Functions |-> 0]
    /\ last = "none"
    /\ verdict = "none"
    /\ calls = 0
    /\ \E go \in GoalOpts, fb \in FeedbackOpts, ui \in [RunIds -> ConcInputs] :
          LET shared == PartialState([goals |-> go, feedback |-> fb])
          IN /\ heap = [a \in Addrs |->
                          IF a[1] = "caller" /\ a[2] \in DOMAIN shared
                          THEN shared[a[2]]
                          ELSE IF a[2] = "feedback" THEN None ELSE <<>>]
             /\ runs = [r \in RunIds |->
                          [pc    |-> EntryPoint,
                           scal  |-> [k \in {"user_input"} |-> ui[r]],
                           refs  |-> [f \in DOMAIN shared |-> <<"caller", f>>],
                           input |-> set_item(shared, "user_input", ui[r])]]

\* run r executes the stage it is at
ConcStep(r) ==
    /\ driver = "conc"
    /\ runs[r].pc \in Nodes
    /\ LET node  == runs[r].pc
           d     == heap_defaults(heap, runs[r].refs, r)
           v     == deref(d.heap, runs[r].scal, d.refs)
           out   == node_fn(node, tools, v)
           refs2 == [f \in HeapFields |->
                        IF out[f] # v[f] /\ ~in_place(node, f) THEN <<r, f>>
                        ELSE d.refs[f]]
       IN /\ heap' = [a \in DOMAIN heap |->
                         IF out[a[2]] # v[a[2]] /\ refs2[a[2]] = a
                         THEN out[a[2]]
                         ELSE d.heap[a]]
          /\ runs' = [runs EXCEPT ![r] =
                         [pc    |-> graph_next(node, out),
                          scal  |-> [k \in ScalarFields |-> out[k]],
                          refs  |-> refs2,
                          input |-> runs[r].input]]
    /\ UNCHANGED <<driver, tools, init, pc, state, executed, last, verdict,
                   calls>>

ConcNext == \E r \in RunIds : ConcStep(r)

ConcSpec == ConcInit /\ [][ConcNext]_vars

\* the state of run r as a dictionary of values
RunState(r) == deref(heap, runs[r].scal, runs[r].refs)

\* the outcome of the graph driven alone on the dictionary run r was given
AloneFinal(r) == graph_run(EntryPoint, runs[r].input, GraphFuel)

\* C20: in every interleaving of the stages of two runs started on the same
\* caller-owned lists, each run's state is what the run alone would hold at
\* that point, so its final state equals the final state of the run alone;
\* after its first stage a run refers only to lists of its own; and the
\* caller's objects are never modified.
C20_RunsIndependent ==
    (driver = "conc") =>
        /\ \A r \in RunIds :
              /\ graph_run(runs[r].pc, RunState(r), GraphFuel) = AloneFinal(r)
              /\ runs[r].pc = END =>
                    AloneFinal(r) = [done |-> TRUE, state |-> RunState(r)]
              /\ runs[r].pc # EntryPoint =>
                    \A f \in ListFields : runs[r].refs[f] = <<r, f>>
        /\ \A a \in DOMAIN heap :
              a[1] = "caller" =>
                 \A r \in RunIds :
                    heap[a] = get(runs[r].input, a[2],
                                  IF a[2] = "feedback" THEN None ELSE <<>>)

\* both runs were handed the same one-goal list, run2 has finished with its
\* own goal appended to its copy while run1, which appended its goal before,
\* is still between GoalSetting and MemoryWrite
C20_Witness ==
    /\ driver = "conc"
    /\ heap[<<"caller", "goals">>] = <<<<"g", "o">>>>
    /\ runs["run2"].pc = END
    /\ runs["run1"].pc = "Planning"
    /\ runs["run1"].input["user_input"] = InMeeting
    /\ runs["run2"].input["user_input"] = InFourWords
    /\ RunState("run1")["goals"] = <<<<"g", "o">>, InMeeting>>
    /\ RunState("run2")["goals"] = <<<<"g", "o">>, InFourWords>>

====
